---- MODULE Spec2Model ----
(***************************************************************************)
(* Model of AuthenticationService (backend/app/services/auth.py): the      *)
(* token codec, the refresh-token generator and the three session flows    *)
(* create_token, refresh_token and logout, each run by concurrently        *)
(* scheduled callers against one transactional session store.              *)
(*                                                                         *)
(* Every request is a task of its own that makes one call; every await of  *)
(* a flow is one step of that task.  Time is in whole seconds, the         *)
(* resolution of the iat/exp claims of a JWT.                              *)
(***************************************************************************)
EXTENDS Integers, FiniteSets, Sequences, TLC

\* ------------------------------------------------------------- bounds
NumProcs == 2
NumUsers == 1
MaxTicks == 2

\* ------------------------------------------- configuration (settings/app.py)
ACCESS_TOKEN_EXPIRE_MINUTES == 5
REFRESH_TOKEN_EXPIRE_DAYS == 30
TOKEN_TYPE == "bearer"
ALGORITHM == "RS256"
\* JWT_PRIVATE_PATH.read_text(), read once when the class is defined
JWT_PRIVATE_KEY == "private_key"
\* JWT_PUBLIC_PATH.read_text(), read once when the class is defined
JWT_PUBLIC_KEY == "public_key"

Procs == 1..NumProcs
UserIds == 1..NumUsers
\* "not-a-real-token": a value the generator never returns.
BogusTokens == {0}

\* timedelta(minutes=float(ACCESS_TOKEN_EXPIRE_MINUTES)), in seconds
AccessLifetime == 60 * ACCESS_TOKEN_EXPIRE_MINUTES
\* timedelta(days=float(REFRESH_TOKEN_EXPIRE_DAYS)).total_seconds()
RefreshLifetime == 86400 * REFRESH_TOKEN_EXPIRE_DAYS
\* The amounts by which the wall clock is observed to advance between steps.
TickSteps == {1, RefreshLifetime}

VARIABLES
    sessions,        \* committed refresh_session rows
    users,           \* ids of the users that exist
    now,             \* datetime.utcnow(), seconds
    ticks,           \* clock advances so far
    nextToken,       \* tokens drawn from secrets.token_urlsafe so far, plus one
    pc, op, arg,     \* per caller: position, flow, argument
    password,        \* per caller: authenticate_user's password argument
    refresh_token,   \* create_token's local refresh_token
    access_token,    \* create_token's local access_token (a set: empty when unset)
    refresh_session, \* the local refresh_session (a set: empty for None)
    user,            \* the local user (a set: empty for None)
    drawn,           \* the bytes create_token's generator call drew
    exc,             \* the exception in flight
    txOpen, pending, \* the caller's unit of work: scope held, uncommitted writes
    committed,       \* uow.commit() has returned in this call
    result,          \* what the last call returned or raised
    scopes,          \* history: transaction scopes entered by this call
    effect,          \* history: what this call's commit changed in the store
    snap,            \* history: the argument's session when the call began
    after,           \* history: the callers whose result preceded this call
    observed,        \* history: logouts of the same token committed at lookup
    checkedAt,       \* history: the clock reading of the call's expiry test
    usersAt,         \* history: the users that existed at that test
    encoded,         \* the last direct call of encode_jwt_token (a set)
    decoded          \* the last call of decode_jwt_token (a set)

callVars == <<pc, op, arg, password>>
localVars == <<refresh_token, access_token, refresh_session, user, drawn>>
txVars == <<txOpen, pending, committed, scopes, effect>>
histVars == <<snap, after, observed, checkedAt, usersAt>>
envVars == <<users, now, ticks>>
codecVars == <<encoded, decoded>>
vars == <<sessions, users, now, ticks, nextToken, pc, op, arg, password,
          refresh_token, access_token, refresh_session, user, drawn, exc,
          txOpen, pending, committed, result, scopes, effect, snap, after,
          observed, checkedAt, usersAt, encoded, decoded>>

NoWrites == [ins |-> {}, del |-> {}]
NoResult == [kind |-> "none", token |-> {}, at |-> 0, user |-> {}]

\* ------------------------------------------------------------ Token codec

\* jwt.encode(payload, private_key, algorithm): header, payload and the
\* signature of the payload under the key.  RS256 signing is deterministic,
\* so equal payloads give equal tokens.
JwtEncode(payload, key, algorithm) ==
    [header |-> [alg |-> algorithm, typ |-> "JWT"],
     payload |-> payload,
     signature |-> [key |-> key, over |-> payload]]

\* Mutant: the payload's times do not come from the clock.
MutEncodeIgnoresClock(subject, expires, t) ==
    JwtEncode([sub |-> subject, iat |-> 0, exp |-> AccessLifetime],
              JWT_PRIVATE_KEY, ALGORITHM)

\* encode_jwt_token(subject, expires=...) called at clock reading t.
\* expires is a set: empty for None, else one number of seconds.
encode_jwt_token(subject, expires, t) ==
    LET truthy == {e \in expires : e # 0}
        expire == IF truthy # {}
                  THEN t + (CHOOSE e \in truthy : TRUE)
                  ELSE t + AccessLifetime
    IN JwtEncode([sub |-> subject, iat |-> t, exp |-> expire],
                 JWT_PRIVATE_KEY, ALGORITHM)

\* The private key whose signatures a public key verifies.
PrivateKeyOf(public_key) ==
    IF public_key = JWT_PUBLIC_KEY THEN JWT_PRIVATE_KEY ELSE "no_key"

\* jwt.decode(token, public_key, algorithms=[...]) at clock reading t: the
\* outcomes it can have.  The algorithm and the signature are checked before
\* exp; at t = exp the library's releases differ, so both outcomes are kept.
JwtDecode(token, public_key, algorithms, t) ==
    IF token.header.alg \notin algorithms THEN {"InvalidAlgorithmError"}
    ELSE IF token.signature # [key |-> PrivateKeyOf(public_key), over |-> token.payload]
         THEN {"InvalidSignatureError"}
    ELSE IF t > token.payload.exp THEN {"ExpiredSignatureError"}
    ELSE IF t = token.payload.exp THEN {"ExpiredSignatureError", "ok"}
    ELSE {"ok"}

\* decode_jwt_token(token) with the default public_key and algorithm.
decode_jwt_token(token, t) == JwtDecode(token, JWT_PUBLIC_KEY, {ALGORITHM}, t)

\* _generate_refresh_token(): the n-th draw of the secure random source;
\* draws do not repeat.
generate_refresh_token(n) == n

\* def _generate_refresh_token(cls, lenght: int = 64)
DEFAULT_LENGHT == 64

\* Mutant: the generator draws 48 bytes when called with no argument.
MutTokenBytesDefault48(lenght) ==
    IF lenght = {} THEN 48 ELSE CHOOSE n \in lenght : TRUE

\* secrets.token_urlsafe(lenght): the random bytes one generator call draws
\* (lenght is a set: empty when the caller passes no argument).
token_bytes(lenght) ==
    IF lenght = {} THEN DEFAULT_LENGHT ELSE CHOOSE n \in lenght : TRUE

Token(a, r) == [access_token |-> a, refresh_token |-> r, token_type |-> TOKEN_TYPE]

\* -------------------------------------------------- Session store gateway

\* uow.refresh_session.create(create_schema=...): created_at is set by the store.
SessionCreate(p, schema) ==
    pending' = [pending EXCEPT ![p].ins = @ \cup
        {[refresh_token |-> schema.refresh_token, user_id |-> schema.user_id,
          created_at |-> now, expires_in |-> schema.expires_in]}]

\* uow.refresh_session.get(spec=RefreshTokenSpecification(refresh_token=t))
SessionGet(t) == {s \in sessions : s.refresh_token = t}

\* uow.refresh_session.delete(spec=RefreshTokenSpecification(refresh_token=t))
SessionDelete(p, t) ==
    pending' = [pending EXCEPT ![p].del = @ \cup {t}]

\* uow.user.get(spec=UserIDSpecification(id=id))
UserGet(id) == {u \in users : u = id}

\* async with uow: __aenter__
UowEnter(p) ==
    /\ txOpen' = [txOpen EXCEPT ![p] = TRUE]
    /\ scopes' = [scopes EXCEPT ![p] = @ + 1]
    /\ pending' = [pending EXCEPT ![p] = NoWrites]

\* uow.commit(): the pending writes reach the committed store.
UowCommit(p) ==
    LET kept == {s \in sessions : s.refresh_token \notin pending[p].del}
        next == kept \cup pending[p].ins
    IN /\ sessions' = next
       /\ pending' = [pending EXCEPT ![p] = NoWrites]
       /\ committed' = [committed EXCEPT ![p] = TRUE]
       /\ effect' = [effect EXCEPT ![p] =
              [ins |-> next \ sessions, del |-> sessions \ next]]

\* async with uow: __aexit__ : uncommitted writes are rolled back, the scope
\* is released.
UowExit(p) ==
    /\ txOpen' = [txOpen EXCEPT ![p] = FALSE]
    /\ pending' = [pending EXCEPT ![p] = NoWrites]

\* ----------------------------------------------------- users, credentials

\* The user with id u has the email u; 0 is an email no user has.
Emails == UserIds \cup {0}
Passwords == {"correct-pw", "wrong-pw"}

\* The password hasher: a salted one-way hash.
Hash(pw) == <<"hash", pw>>

\* user.hashed_password
HashedPassword(u) == Hash("correct-pw")

\* verify_password(user_password=..., hashed_password=...)
verify_password(user_password, hashed_password) ==
    Hash(user_password) = hashed_password

\* UserService.get_by_email(uow, email=email)
get_by_email(email) == {u \in users : u = email}

\* ------------------------------------------------------------- flow steps

\* raise e inside the scope: control goes to the scope's exit.
Raise(p, e) ==
    /\ exc' = [exc EXCEPT ![p] = e]
    /\ pc' = [pc EXCEPT ![p] = "exit"]

\* return from the call: the scope is left without an exception.
Return(p, tok, t) ==
    /\ UowExit(p)
    /\ pc' = [pc EXCEPT ![p] = "done"]
    /\ result' = [result EXCEPT ![p] = [kind |-> "ok", token |-> tok, at |-> t, user |-> {}]]

\* An exception leaves the scope and reaches the caller as it is.
Propagate(p) ==
    /\ UowExit(p)
    /\ pc' = [pc EXCEPT ![p] = "done"]
    /\ result' = [result EXCEPT ![p] = [kind |-> exc[p], token |-> {}, at |-> 0, user |-> {}]]

\* Task p is scheduled and invokes flow f with argument a.  Tasks are
\* interchangeable, so they are numbered in the order they begin.
Begin(p, f, a) ==
    /\ pc[p] = "idle"
    /\ \A q \in Procs : q < p => pc[q] # "idle"
    /\ op' = [op EXCEPT ![p] = f]
    /\ arg' = [arg EXCEPT ![p] = a]
    /\ snap' = [snap EXCEPT ![p] = IF f \in {"refresh", "logout"} THEN SessionGet(a) ELSE {}]
    /\ after' = [after EXCEPT ![p] = {r \in Procs \ {p} : pc[r] = "done"}]

\* Refresh tokens a caller can present: a bogus one, or one that a finished
\* create_token drew.
Presentable ==
    BogusTokens \cup
    {t \in 1..(nextToken - 1) :
        \A q \in Procs : ~(op[q] = "create" /\ pc[q] \notin {"idle", "done"}
                            /\ refresh_token[q] = t)}

\* ----------------------------------------------------------- create_token

\* The access token is encoded, the refresh token drawn, the scope entered.
CreateTokenBegin(p, user_id) ==
    /\ Begin(p, "create", user_id)
    /\ access_token' = [access_token EXCEPT ![p] = {encode_jwt_token(user_id, {}, now)}]
    /\ refresh_token' = [refresh_token EXCEPT ![p] = generate_refresh_token(nextToken)]
    /\ drawn' = [drawn EXCEPT ![p] = token_bytes({})]
    /\ nextToken' = nextToken + 1
    /\ UowEnter(p)
    /\ pc' = [pc EXCEPT ![p] = "insert"]
    /\ UNCHANGED <<sessions, envVars, codecVars, password, refresh_session, user, exc, committed,
                   result, effect, observed, checkedAt, usersAt>>

\* Mutant: a new session replaces the user's earlier ones.
MutCreateTokenInsertSingleSession(p) ==
    /\ pc[p] = "insert"
    /\ \/ /\ pending' = [pending EXCEPT ![p] =
                 [ins |-> {[refresh_token |-> refresh_token[p], user_id |-> arg[p],
                            created_at |-> now, expires_in |-> RefreshLifetime]},
                  del |-> {s.refresh_token : s \in {x \in sessions : x.user_id = arg[p]}}]]
          /\ pc' = [pc EXCEPT ![p] = "commit"]
          /\ UNCHANGED exc
       \/ /\ Raise(p, "StoreFault")
          /\ UNCHANGED pending
    /\ UNCHANGED <<sessions, envVars, codecVars, nextToken, op, arg, password, localVars, txOpen,
                   committed, result, scopes, effect, histVars>>

CreateTokenInsert(p) ==
    /\ pc[p] = "insert"
    /\ \/ /\ SessionCreate(p, [refresh_token |-> refresh_token[p],
                               expires_in |-> RefreshLifetime,
                               user_id |-> arg[p]])
          /\ pc' = [pc EXCEPT ![p] = "commit"]
          /\ UNCHANGED exc
       \/ /\ Raise(p, "StoreFault")
          /\ UNCHANGED pending
    /\ UNCHANGED <<sessions, envVars, codecVars, nextToken, op, arg, password, localVars, txOpen,
                   committed, result, scopes, effect, histVars>>

\* The commit; when it returns the scope is left and the pair returned.
CreateTokenCommit(p) ==
    /\ pc[p] = "commit" /\ op[p] = "create"
    /\ \/ /\ UowCommit(p)
          /\ LET a == CHOOSE a \in access_token[p] : TRUE
             IN Return(p, {Token(a, refresh_token[p])}, a.payload.iat)
          /\ UNCHANGED exc
       \/ /\ Raise(p, "StoreFault")
          /\ UNCHANGED <<sessions, txOpen, pending, committed, effect, result>>
    /\ UNCHANGED <<envVars, codecVars, nextToken, op, arg, password, localVars, scopes, histVars>>

CreateTokenExit(p) ==
    /\ pc[p] = "exit" /\ op[p] = "create"
    /\ Propagate(p)
    /\ UNCHANGED <<sessions, envVars, codecVars, nextToken, op, arg, password, localVars, exc,
                   committed, scopes, effect, histVars>>

\* --------------------------------------------------- refresh_token / logout

\* Mutant: the last instant of the window counts as expired.
MutSessionExpiredAtBoundary(s, t) == t >= s.created_at + s.expires_in

\* datetime.utcnow() > refresh_session.created_at + timedelta(seconds=expires_in)
SessionExpired(s, t) == t > s.created_at + s.expires_in

\* The callers whose logout of token t has committed.
LoggedOut(p, t) ==
    {q \in Procs \ {p} : op[q] = "logout" /\ arg[q] = t /\ committed[q]}

RefreshBegin(p, t) ==
    /\ Begin(p, "refresh", t)
    /\ UowEnter(p)
    /\ pc' = [pc EXCEPT ![p] = "get"]
    /\ UNCHANGED <<sessions, envVars, codecVars, nextToken, password, localVars, exc, committed,
                   result, effect, observed, checkedAt, usersAt>>

\* The lookup and the two checks on what it returned.
\* Mutant: the owning user is looked up before the expiry test.
MutRefreshGetUserFirst(p) ==
    /\ pc[p] = "get" /\ op[p] = "refresh"
    /\ \/ LET found == SessionGet(arg[p])
              owner == UNION {UserGet(s.user_id) : s \in found}
          IN /\ refresh_session' = [refresh_session EXCEPT ![p] = found]
             /\ observed' = [observed EXCEPT ![p] = LoggedOut(p, arg[p])]
             /\ checkedAt' = [checkedAt EXCEPT ![p] = now]
             /\ usersAt' = [usersAt EXCEPT ![p] = users]
             /\ IF found = {} \/ owner = {}
                THEN Raise(p, "InvalidToken")
                ELSE /\ pc' = [pc EXCEPT ![p] =
                            IF \E s \in found : SessionExpired(s, now)
                            THEN "delete" ELSE "user"]
                     /\ UNCHANGED exc
       \/ /\ Raise(p, "StoreFault")
          /\ UNCHANGED <<refresh_session, observed, checkedAt, usersAt>>
    /\ UNCHANGED <<sessions, envVars, codecVars, nextToken, op, arg, password, refresh_token,
                   access_token, user, drawn, txVars, result, snap, after>>

\* refresh_session = await uow.refresh_session.get(...), the not-found test
\* and the expiry test.
RefreshGet(p) ==
    /\ pc[p] = "get" /\ op[p] = "refresh"
    /\ \/ LET found == SessionGet(arg[p])
          IN /\ refresh_session' = [refresh_session EXCEPT ![p] = found]
             /\ observed' = [observed EXCEPT ![p] = LoggedOut(p, arg[p])]
             /\ checkedAt' = [checkedAt EXCEPT ![p] = now]
             /\ usersAt' = [usersAt EXCEPT ![p] = users]
             /\ IF found = {}
                THEN Raise(p, "InvalidToken")
                ELSE /\ pc' = [pc EXCEPT ![p] =
                            IF \E s \in found : SessionExpired(s, now)
                            THEN "delete" ELSE "user"]
                     /\ UNCHANGED exc
       \/ /\ Raise(p, "StoreFault")
          /\ UNCHANGED <<refresh_session, observed, checkedAt, usersAt>>
    /\ UNCHANGED <<sessions, envVars, codecVars, nextToken, op, arg, password, refresh_token,
                   access_token, user, drawn, txVars, result, snap, after>>

\* Mutant: the delete of the expired session is committed before the raise.
MutRefreshDeleteCommits(p) ==
    /\ pc[p] = "delete" /\ op[p] = "refresh"
    /\ \/ /\ sessions' = sessions \ SessionGet(arg[p])
          /\ committed' = [committed EXCEPT ![p] = TRUE]
          /\ effect' = [effect EXCEPT ![p] = [ins |-> {}, del |-> SessionGet(arg[p])]]
          /\ Raise(p, "TokenExpired")
       \/ /\ Raise(p, "StoreFault")
          /\ UNCHANGED <<sessions, committed, effect>>
    /\ UNCHANGED <<envVars, codecVars, nextToken, op, arg, password, localVars, txOpen, pending,
                   result, scopes, histVars>>

RefreshDelete(p) ==
    /\ pc[p] = "delete" /\ op[p] = "refresh"
    /\ \/ /\ SessionDelete(p, arg[p])
          /\ Raise(p, "TokenExpired")
       \/ /\ Raise(p, "StoreFault")
          /\ UNCHANGED pending
    /\ UNCHANGED <<sessions, envVars, codecVars, nextToken, op, arg, password, localVars, txOpen,
                   committed, result, scopes, effect, histVars>>

\* Mutant: a missing user does not stop the refresh.
MutRefreshUserIgnoresMissing(p) ==
    /\ pc[p] = "user"
    /\ \/ LET found == UserGet((CHOOSE s \in refresh_session[p] : TRUE).user_id)
          IN /\ user' = [user EXCEPT ![p] = found]
             /\ pc' = [pc EXCEPT ![p] = "commit"]
             /\ UNCHANGED exc
       \/ /\ Raise(p, "StoreFault")
          /\ UNCHANGED user
    /\ UNCHANGED <<sessions, envVars, codecVars, nextToken, op, arg, password, refresh_token,
                   access_token, refresh_session, drawn, txVars, result, histVars>>

\* user = await uow.user.get(...); if not user: raise InvalidTokenException
RefreshUser(p) ==
    /\ pc[p] = "user"
    /\ \/ LET found == UserGet((CHOOSE s \in refresh_session[p] : TRUE).user_id)
          IN /\ user' = [user EXCEPT ![p] = found]
             /\ IF found = {}
                THEN Raise(p, "InvalidToken")
                ELSE /\ pc' = [pc EXCEPT ![p] = "commit"]
                     /\ UNCHANGED exc
       \/ /\ Raise(p, "StoreFault")
          /\ UNCHANGED user
    /\ UNCHANGED <<sessions, envVars, codecVars, nextToken, op, arg, password, refresh_token,
                   access_token, refresh_session, drawn, txVars, result, histVars>>

\* Mutant: the pair carries a newly drawn refresh token.
MutRefreshCommitNewToken(p) ==
    /\ pc[p] = "commit" /\ op[p] = "refresh"
    /\ \/ /\ UowCommit(p)
          /\ Return(p, {Token(encode_jwt_token(u, {}, now),
                              generate_refresh_token(nextToken)) : u \in user[p]},
                    now)
          /\ UNCHANGED exc
       \/ /\ Raise(p, "StoreFault")
          /\ UNCHANGED <<sessions, txOpen, pending, committed, effect, result>>
    /\ UNCHANGED <<envVars, codecVars, nextToken, op, arg, password, localVars, scopes, histVars>>

\* Mutant: rotation on use, the presented session is deleted with the commit.
MutRefreshCommitRotates(p) ==
    /\ pc[p] = "commit" /\ op[p] = "refresh"
    /\ \/ /\ sessions' = sessions \ SessionGet(arg[p])
          /\ committed' = [committed EXCEPT ![p] = TRUE]
          /\ effect' = [effect EXCEPT ![p] = [ins |-> {}, del |-> SessionGet(arg[p])]]
          /\ Return(p, {Token(encode_jwt_token(u, {}, now), arg[p]) : u \in user[p]},
                    now)
          /\ UNCHANGED exc
       \/ /\ Raise(p, "StoreFault")
          /\ UNCHANGED <<sessions, txOpen, pending, committed, effect, result>>
    /\ UNCHANGED <<envVars, codecVars, nextToken, op, arg, password, localVars, scopes, histVars>>

\* Mutant: sliding expiry, a refresh restarts the session's window.
MutRefreshCommitSlides(p) ==
    /\ pc[p] = "commit" /\ op[p] = "refresh"
    /\ \/ /\ sessions' = {IF s.refresh_token = arg[p]
                               THEN [s EXCEPT !.created_at = now] ELSE s :
                           s \in sessions}
          /\ committed' = [committed EXCEPT ![p] = TRUE]
          /\ effect' = [effect EXCEPT ![p] = NoWrites]
          /\ Return(p, {Token(encode_jwt_token(u, {}, now), arg[p]) : u \in user[p]},
                    now)
          /\ UNCHANGED exc
       \/ /\ Raise(p, "StoreFault")
          /\ UNCHANGED <<sessions, txOpen, pending, committed, effect, result>>
    /\ UNCHANGED <<envVars, codecVars, nextToken, op, arg, password, localVars, scopes, histVars>>

\* Mutant: the access token's subject is taken from the request.
MutRefreshCommitSubjectFromRequest(p) ==
    /\ pc[p] = "commit" /\ op[p] = "refresh"
    /\ \/ /\ UowCommit(p)
          /\ Return(p, {Token(encode_jwt_token(arg[p], {}, now), arg[p]) : u \in user[p]},
                    now)
          /\ UNCHANGED exc
       \/ /\ Raise(p, "StoreFault")
          /\ UNCHANGED <<sessions, txOpen, pending, committed, effect, result>>
    /\ UNCHANGED <<envVars, codecVars, nextToken, op, arg, password, localVars, scopes, histVars>>

\* The commit; when it returns the scope is left, the access token minted
\* and the pair returned.
RefreshCommit(p) ==
    /\ pc[p] = "commit" /\ op[p] = "refresh"
    /\ \/ /\ UowCommit(p)
          /\ Return(p, {Token(encode_jwt_token(u, {}, now), arg[p]) : u \in user[p]},
                    now)
          /\ UNCHANGED exc
       \/ /\ Raise(p, "StoreFault")
          /\ UNCHANGED <<sessions, txOpen, pending, committed, effect, result>>
    /\ UNCHANGED <<envVars, codecVars, nextToken, op, arg, password, localVars, scopes, histVars>>

RefreshExit(p) ==
    /\ pc[p] = "exit" /\ op[p] = "refresh"
    /\ Propagate(p)
    /\ UNCHANGED <<sessions, envVars, codecVars, nextToken, op, arg, password, localVars, exc,
                   committed, scopes, effect, histVars>>

LogoutBegin(p, t) ==
    /\ Begin(p, "logout", t)
    /\ UowEnter(p)
    /\ pc' = [pc EXCEPT ![p] = "get"]
    /\ UNCHANGED <<sessions, envVars, codecVars, nextToken, password, localVars, exc, committed,
                   result, effect, observed, checkedAt, usersAt>>

\* Mutant: a logout of a token without a session goes on to the commit.
MutLogoutGetIgnoresMissing(p) ==
    /\ pc[p] = "get" /\ op[p] = "logout"
    /\ \/ LET found == SessionGet(arg[p])
          IN /\ refresh_session' = [refresh_session EXCEPT ![p] = found]
             /\ observed' = [observed EXCEPT ![p] = LoggedOut(p, arg[p])]
             /\ checkedAt' = [checkedAt EXCEPT ![p] = now]
             /\ usersAt' = [usersAt EXCEPT ![p] = users]
             /\ pc' = [pc EXCEPT ![p] =
                    IF \E s \in found : SessionExpired(s, now)
                    THEN "delete" ELSE "commit"]
             /\ UNCHANGED exc
       \/ /\ Raise(p, "StoreFault")
          /\ UNCHANGED <<refresh_session, observed, checkedAt, usersAt>>
    /\ UNCHANGED <<sessions, envVars, codecVars, nextToken, op, arg, password, refresh_token,
                   access_token, user, drawn, txVars, result, snap, after>>

LogoutGet(p) ==
    /\ pc[p] = "get" /\ op[p] = "logout"
    /\ \/ LET found == SessionGet(arg[p])
          IN /\ refresh_session' = [refresh_session EXCEPT ![p] = found]
             /\ observed' = [observed EXCEPT ![p] = LoggedOut(p, arg[p])]
             /\ checkedAt' = [checkedAt EXCEPT ![p] = now]
             /\ usersAt' = [usersAt EXCEPT ![p] = users]
             /\ IF found = {}
                THEN Raise(p, "InvalidToken")
                ELSE /\ pc' = [pc EXCEPT ![p] =
                            IF \E s \in found : SessionExpired(s, now)
                            THEN "delete" ELSE "commit"]
                     /\ UNCHANGED exc
       \/ /\ Raise(p, "StoreFault")
          /\ UNCHANGED <<refresh_session, observed, checkedAt, usersAt>>
    /\ UNCHANGED <<sessions, envVars, codecVars, nextToken, op, arg, password, refresh_token,
                   access_token, user, drawn, txVars, result, snap, after>>

LogoutDelete(p) ==
    /\ pc[p] = "delete" /\ op[p] = "logout"
    /\ \/ /\ SessionDelete(p, arg[p])
          /\ Raise(p, "TokenExpired")
       \/ /\ Raise(p, "StoreFault")
          /\ UNCHANGED pending
    /\ UNCHANGED <<sessions, envVars, codecVars, nextToken, op, arg, password, localVars, txOpen,
                   committed, result, scopes, effect, histVars>>

\* The commit; when it returns the scope is left and the call returns None.
LogoutCommit(p) ==
    /\ pc[p] = "commit" /\ op[p] = "logout"
    /\ \/ /\ UowCommit(p)
          /\ Return(p, {}, 0)
          /\ UNCHANGED exc
       \/ /\ Raise(p, "StoreFault")
          /\ UNCHANGED <<sessions, txOpen, pending, committed, effect, result>>
    /\ UNCHANGED <<envVars, codecVars, nextToken, op, arg, password, localVars, scopes, histVars>>

\* Mutant: the exception leaves logout without the scope being released.
MutLogoutExitKeepsScope(p) ==
    /\ pc[p] = "exit" /\ op[p] = "logout"
    /\ pc' = [pc EXCEPT ![p] = "done"]
    /\ result' = [result EXCEPT ![p] = [kind |-> exc[p], token |-> {}, at |-> 0, user |-> {}]]
    /\ UNCHANGED <<sessions, envVars, codecVars, nextToken, op, arg, password, localVars, exc,
                   txVars, histVars>>

LogoutExit(p) ==
    /\ pc[p] = "exit" /\ op[p] = "logout"
    /\ Propagate(p)
    /\ UNCHANGED <<sessions, envVars, codecVars, nextToken, op, arg, password, localVars, exc,
                   committed, scopes, effect, histVars>>

\* ----------------------------------------------------- authenticate_user

\* raise e where the call holds no scope: the exception reaches the caller.
RaiseOut(p, e) ==
    /\ exc' = [exc EXCEPT ![p] = e]
    /\ pc' = [pc EXCEPT ![p] = "done"]
    /\ result' = [result EXCEPT ![p] = [kind |-> e, token |-> {}, at |-> 0, user |-> {}]]

AuthenticateBegin(p, email, pw) ==
    /\ Begin(p, "authenticate", email)
    /\ password' = [password EXCEPT ![p] = pw]
    /\ pc' = [pc EXCEPT ![p] = "lookup"]
    /\ UNCHANGED <<sessions, envVars, codecVars, nextToken, localVars, exc,
                   txVars, result, observed, checkedAt, usersAt>>

\* Mutant: an unknown email is reported as such.
MutAuthenticateUserNamesUnknown(p) ==
    /\ pc[p] = "lookup"
    /\ \/ LET found == get_by_email(arg[p])
          IN /\ user' = [user EXCEPT ![p] = found]
             /\ IF found = {}
                   THEN RaiseOut(p, "UserNotFound")
                   ELSE IF \E u \in found :
                              ~verify_password(password[p], HashedPassword(u))
                          THEN RaiseOut(p, "InvalidCredentials")
                          ELSE /\ pc' = [pc EXCEPT ![p] = "done"]
                               /\ result' = [result EXCEPT ![p] =
                                      [kind |-> "ok", token |-> {}, at |-> 0,
                                       user |-> found]]
                               /\ UNCHANGED exc
       \/ /\ RaiseOut(p, "StoreFault")
          /\ UNCHANGED user
    /\ UNCHANGED <<sessions, envVars, codecVars, nextToken, op, arg, password,
                   refresh_token, access_token, refresh_session, drawn, txVars,
                   histVars>>

\* The lookup by email, the password check and the return.
AuthenticateUser(p) ==
    /\ pc[p] = "lookup"
    /\ \/ LET found == get_by_email(arg[p])
          IN /\ user' = [user EXCEPT ![p] = found]
             /\ IF found = {}
                   THEN RaiseOut(p, "InvalidCredentials")
                   ELSE IF \E u \in found :
                              ~verify_password(password[p], HashedPassword(u))
                          THEN RaiseOut(p, "InvalidCredentials")
                          ELSE /\ pc' = [pc EXCEPT ![p] = "done"]
                               /\ result' = [result EXCEPT ![p] =
                                      [kind |-> "ok", token |-> {}, at |-> 0,
                                       user |-> found]]
                               /\ UNCHANGED exc
       \/ /\ RaiseOut(p, "StoreFault")
          /\ UNCHANGED user
    /\ UNCHANGED <<sessions, envVars, codecVars, nextToken, op, arg, password,
                   refresh_token, access_token, refresh_session, drawn, txVars,
                   histVars>>

\* ------------------------------------------------------- decode_jwt_token

\* The access tokens the finished calls have returned.
Issued == UNION {{x.access_token : x \in result[p].token} : p \in Procs}

\* A token with a payload of the usual shape, signed with a key that is not
\* the service's.
ForgedTokens ==
    {JwtEncode([sub |-> u, iat |-> 0, exp |-> AccessLifetime], "attacker_key",
               ALGORITHM) : u \in UserIds}

\* The refresh tokens for which a logout has returned without an error.
LoggedOutTokens == {arg[p] : p \in {q \in Procs : op[q] = "logout" /\ pc[q] = "done"
                                                   /\ result[q].kind = "ok"}}

\* Mutant: decode looks for a logout of the pair the token was returned in.
MutDecodeCallChecksLogout(tok) ==
    /\ decoded = {}
    /\ \E o \in decode_jwt_token(tok, now) :
          decoded' = {[token |-> tok, at |-> now,
                       outcome |-> IF \E p \in Procs : \E x \in result[p].token :
                                          /\ x.access_token = tok
                                          /\ x.refresh_token \in LoggedOutTokens
                                   THEN "Revoked" ELSE o,
                       loggedOut |-> LoggedOutTokens]}
    /\ UNCHANGED <<sessions, envVars, nextToken, callVars, localVars, exc,
                   txVars, result, histVars, encoded>>

\* The layer that authorises requests decodes a token presented to it.
DecodeCall(tok) ==
    /\ decoded = {}
    /\ \E o \in decode_jwt_token(tok, now) :
          decoded' = {[token |-> tok, at |-> now, outcome |-> o,
                       loggedOut |-> LoggedOutTokens]}
    /\ UNCHANGED <<sessions, envVars, nextToken, callVars, localVars, exc,
                   txVars, result, histVars, encoded>>

\* ------------------------------------------------------- encode_jwt_token

\* The lifetimes a direct caller passes as expires, in seconds: negative,
\* zero and positive.
Ttls == {-1, 0, 1, 3600}

\* A direct call encode_jwt_token(subject, expires=...); expires is a set,
\* empty when the argument is not given.
EncodeCall(subject, expires) ==
    /\ encoded' = {[subject |-> subject, expires |-> expires, at |-> now,
                    token |-> encode_jwt_token(subject, expires, now)]}
    /\ UNCHANGED <<sessions, envVars, nextToken, callVars, localVars, exc,
                   txVars, result, histVars, decoded>>

\* ------------------------------------------------------------ environment

Tick ==
    /\ ticks < MaxTicks
    /\ \E d \in TickSteps : now' = now + d
    /\ ticks' = ticks + 1
    /\ UNCHANGED <<sessions, users, nextToken, callVars, codecVars, localVars, exc, txVars,
                   result, histVars>>

UserDeleted ==
    /\ \E u \in users : users' = users \ {u}
    /\ UNCHANGED <<sessions, now, ticks, nextToken, callVars, codecVars, localVars, exc,
                   txVars, result, histVars>>

\* The rows the store may hold when the service starts: none, or sessions
\* that earlier create_token calls left there.
StoredAtStart ==
    {{}} \cup
    {{[refresh_token |-> generate_refresh_token(1), user_id |-> u,
       created_at |-> 0, expires_in |-> RefreshLifetime]} : u \in UserIds}

Init ==
    /\ sessions \in StoredAtStart
    /\ users = UserIds
    /\ now = 0
    /\ ticks = 0
    /\ nextToken = Cardinality(sessions) + 1
    /\ pc = [p \in Procs |-> "idle"]
    /\ op = [p \in Procs |-> "none"]
    /\ arg = [p \in Procs |-> 0]
    /\ password = [p \in Procs |-> ""]
    /\ refresh_token = [p \in Procs |-> 0]
    /\ access_token = [p \in Procs |-> {}]
    /\ refresh_session = [p \in Procs |-> {}]
    /\ user = [p \in Procs |-> {}]
    /\ drawn = [p \in Procs |-> 0]
    /\ exc = [p \in Procs |-> "none"]
    /\ txOpen = [p \in Procs |-> FALSE]
    /\ pending = [p \in Procs |-> NoWrites]
    /\ committed = [p \in Procs |-> FALSE]
    /\ result = [p \in Procs |-> NoResult]
    /\ scopes = [p \in Procs |-> 0]
    /\ effect = [p \in Procs |-> NoWrites]
    /\ snap = [p \in Procs |-> {}]
    /\ after = [p \in Procs |-> {}]
    /\ observed = [p \in Procs |-> {}]
    /\ checkedAt = [p \in Procs |-> 0]
    /\ usersAt = [p \in Procs |-> {}]
    /\ encoded = {}
    /\ decoded = {}

Next ==
    \/ \E p \in Procs, u \in users : CreateTokenBegin(p, u)
    \/ \E p \in Procs : CreateTokenInsert(p)
    \/ \E p \in Procs : CreateTokenCommit(p)
    \/ \E p \in Procs : CreateTokenExit(p)
    \/ \E p \in Procs, e \in Emails, pw \in Passwords : AuthenticateBegin(p, e, pw)
    \/ \E tok \in Issued \cup ForgedTokens : DecodeCall(tok)
    \/ \E p \in Procs : AuthenticateUser(p)
    \/ \E p \in Procs, t \in Presentable : RefreshBegin(p, t)
    \/ \E p \in Procs : RefreshGet(p)
    \/ \E p \in Procs : RefreshDelete(p)
    \/ \E p \in Procs : RefreshUser(p)
    \/ \E p \in Procs : RefreshCommit(p)
    \/ \E p \in Procs : RefreshExit(p)
    \/ \E p \in Procs, t \in Presentable : LogoutBegin(p, t)
    \/ \E p \in Procs : LogoutGet(p)
    \/ \E p \in Procs : LogoutDelete(p)
    \/ \E p \in Procs : LogoutCommit(p)
    \/ \E p \in Procs : LogoutExit(p)
    \/ Tick
    \/ UserDeleted

Spec == Init /\ [][Next]_vars

\* The token codec driven on its own: direct encode calls, decodes of what
\* they returned, and the clock.
CodecNext ==
    \/ \E subject \in UserIds, expires \in {{}} \cup {{d} : d \in Ttls} :
          EncodeCall(subject, expires)
    \/ \E tok \in {e.token : e \in encoded} : DecodeCall(tok)
    \/ Tick

CodecSpec == Init /\ [][CodecNext]_vars

\* ================================================================ claims

Done(p) == pc[p] = "done"
Kind(p) == result[p].kind
\* The session the call's token named when the call began was within its
\* validity window at clock reading t.
ValidSnap(p, t) == snap[p] # {} /\ \A s \in snap[p] : ~SessionExpired(s, t)

\* C1 (as claimed): once logout(t) has returned normally, the store holds no
\* session for t.
C1_LogoutDeletesSession ==
    \A p \in Procs :
        Done(p) /\ op[p] = "logout" /\ Kind(p) = "ok" => SessionGet(arg[p]) = {}

\* C2 (as claimed): once refresh(t) or logout(t) has raised TokenExpired, the
\* committed store holds no session for t.
C2_ExpiredSessionGone ==
    \A p \in Procs :
        Done(p) /\ op[p] \in {"refresh", "logout"} /\ Kind(p) = "TokenExpired"
            => SessionGet(arg[p]) = {}

\* C3: refresh and logout of a token that has no session in the store raise
\* InvalidToken (a bogus token never has one) and their call changes no row
\* of the store.
C3_UnknownToken ==
    \A p \in Procs :
        Done(p) /\ op[p] \in {"refresh", "logout"} /\ Kind(p) # "StoreFault"
            => /\ arg[p] \in BogusTokens => snap[p] = {}
               /\ snap[p] = {} => /\ Kind(p) = "InvalidToken"
                                  /\ effect[p] = NoWrites
                                  /\ ~committed[p]

C3_Witness ==
    \E p, q \in Procs :
        /\ Done(p) /\ op[p] = "refresh" /\ arg[p] \in BogusTokens
        /\ Done(q) /\ op[q] = "logout" /\ snap[q] = {}
        /\ Kind(p) = "InvalidToken" /\ Kind(q) = "InvalidToken"
        /\ sessions # {}

\* C4: every successful refresh(t) returns a pair whose refresh_token is t
\* and leaves the session of t as it was: its call changes no row and the
\* row read at the start is still in the store.
C4_RefreshNoRotation ==
    \A p \in Procs :
        Done(p) /\ op[p] = "refresh" /\ Kind(p) = "ok"
            => /\ result[p].token # {}
               /\ \A tk \in result[p].token : tk.refresh_token = arg[p]
               /\ effect[p] = NoWrites
               /\ snap[p] # {} /\ snap[p] \subseteq sessions

C4_Witness ==
    \E p, q \in Procs :
        /\ q \in after[p] /\ arg[p] = arg[q]
        /\ Done(p) /\ op[p] = "refresh" /\ Kind(p) = "ok"
        /\ Done(q) /\ op[q] = "refresh" /\ Kind(q) = "ok"

\* Two refresh calls of the same token, the second begun after the first
\* returned, both successful.
Successive(p, q) ==
    /\ q \in after[p] /\ arg[p] = arg[q]
    /\ Done(p) /\ op[p] = "refresh" /\ Kind(p) = "ok"
    /\ Done(q) /\ op[q] = "refresh" /\ Kind(q) = "ok"

\* C5 (as claimed): two successive refresh calls with the same valid token
\* return different access tokens, whatever the clock reads.
C5_DistinctAccessTokens ==
    \A p, q \in Procs :
        Successive(p, q) =>
            \A a \in result[p].token, b \in result[q].token :
                a.access_token # b.access_token

\* C5 (amended): two successive refresh calls with the same valid token
\* return different access tokens exactly when the two calls read different
\* clock values; with the same reading the access tokens are equal.
C5_DistinctIffClockDiffers ==
    \A p, q \in Procs :
        Successive(p, q) =>
            \A a \in result[p].token, b \in result[q].token :
                (a.access_token # b.access_token) <=> (result[p].at # result[q].at)

C5_Witness ==
    \E p, q \in Procs :
        /\ Successive(p, q)
        /\ result[p].at # result[q].at
        /\ \A a \in result[p].token, b \in result[q].token :
               a.access_token # b.access_token

\* C6: a create_token(user_id) that returned added exactly one row, keyed by
\* the refresh token it returned, with that user_id and the configured
\* refresh lifetime; it removed no row, and the new row is in the store.
C6_CreateAddsOneSession ==
    \A p \in Procs :
        Done(p) /\ op[p] = "create" /\ Kind(p) = "ok"
            => /\ effect[p].del = {}
               /\ Cardinality(effect[p].ins) = 1
               /\ effect[p].ins \subseteq sessions
               /\ \A s \in effect[p].ins :
                      /\ \E tk \in result[p].token : tk.refresh_token = s.refresh_token
                      /\ s.user_id = arg[p]
                      /\ s.expires_in = 86400 * REFRESH_TOKEN_EXPIRE_DAYS

\* One user holds two sessions, the later one from a create_token call.
C6_Witness ==
    \E p \in Procs :
        /\ Done(p) /\ op[p] = "create" /\ Kind(p) = "ok"
        /\ \E s \in sessions :
               s.user_id = arg[p] /\ s.refresh_token # refresh_token[p]
        /\ \E s \in sessions : s.refresh_token = refresh_token[p]

\* C7 (as claimed): a refresh or logout of a valid token ends normally or
\* with InvalidToken, and one whose lookup came after another caller's
\* logout of that token had committed ends with InvalidToken.
C7_LoserSeesNotFound ==
    \A p \in Procs :
        Done(p) /\ op[p] \in {"refresh", "logout"} /\ Kind(p) # "StoreFault"
                /\ ValidSnap(p, now)
            => /\ Kind(p) \in {"ok", "InvalidToken"}
               /\ op[p] = "refresh" /\ observed[p] # {} => Kind(p) = "InvalidToken"

\* C8: two refresh calls of the same token, whose session exists, is within
\* its window and belongs to an existing user, both succeed however their
\* steps interleave, each returning the token it was given, and the session
\* row is unchanged.
C8_ConcurrentRefreshBothSucceed ==
    \A p, q \in Procs :
        /\ p # q /\ arg[p] = arg[q]
        /\ Done(p) /\ op[p] = "refresh" /\ Kind(p) # "StoreFault"
        /\ Done(q) /\ op[q] = "refresh" /\ Kind(q) # "StoreFault"
        /\ ValidSnap(p, now) /\ ValidSnap(q, now)
        /\ \A s \in snap[p] \cup snap[q] : s.user_id \in users
        => /\ Kind(p) = "ok" /\ Kind(q) = "ok"
           /\ \A tk \in result[p].token \cup result[q].token :
                  tk.refresh_token = arg[p]
           /\ snap[p] = snap[q] /\ snap[p] \subseteq sessions

\* Both calls succeeded and neither began after the other had returned.
C8_Witness ==
    \E p, q \in Procs :
        /\ p # q /\ arg[p] = arg[q]
        /\ Done(p) /\ op[p] = "refresh" /\ Kind(p) = "ok"
        /\ Done(q) /\ op[q] = "refresh" /\ Kind(q) = "ok"
        /\ q \notin after[p] /\ p \notin after[q]

\* C9: a call that ended by raising committed nothing, so it changed no row
\* of the store, and the caller gets the very exception that was raised: a
\* store fault stays a store fault.
C9_RaiseRollsBack ==
    \A p \in Procs :
        Done(p) =>
            /\ (exc[p] = "none") <=> (Kind(p) = "ok")
            /\ exc[p] # "none" => /\ Kind(p) = exc[p]
                                  /\ ~committed[p]
                                  /\ effect[p] = NoWrites
                                  /\ pending[p] = NoWrites

\* A create_token stopped by a store fault after its insert, and an expired
\* token's refresh or logout stopped by TokenExpired after its delete.
C9_Witness ==
    \E p, q \in Procs :
        /\ Done(p) /\ op[p] = "create" /\ Kind(p) = "StoreFault"
        /\ SessionGet(refresh_token[p]) = {}
        /\ Done(q) /\ op[q] \in {"refresh", "logout"} /\ Kind(q) = "TokenExpired"

\* C10: a call holds at most one transaction scope, a finished call has
\* entered exactly one and holds none.
C10_ScopeReleased ==
    \A p \in Procs :
        /\ scopes[p] <= 1
        /\ txOpen[p] => scopes[p] = 1 /\ ~Done(p)
        /\ Done(p) => ~txOpen[p]
        /\ Done(p) /\ op[p] \in {"create", "refresh", "logout"} => scopes[p] = 1

C10_Witness ==
    \E p, q \in Procs :
        /\ Done(p) /\ Kind(p) = "ok"
        /\ Done(q) /\ Kind(q) \in {"StoreFault", "TokenExpired", "InvalidToken"}
        /\ ~txOpen[p] /\ ~txOpen[q]

\* The call has looked its token up, found a session and tested its expiry.
Tested(p) ==
    /\ op[p] \in {"refresh", "logout"}
    /\ refresh_session[p] # {}
    /\ pc[p] \notin {"idle", "get"}

\* C11: refresh and logout treat the session they found as expired exactly
\* when the clock they read is later than created_at + expires_in: at the
\* last instant of the window, and before, the call does not take the
\* expired path and does not raise TokenExpired; at any later instant it
\* takes it, and raises TokenExpired unless the store fails.
C11_ValidityBoundary ==
    \A p \in Procs :
        Tested(p) =>
            \A s \in refresh_session[p] :
                LET late == checkedAt[p] > s.created_at + s.expires_in
                IN /\ pc[p] = "delete" => late
                   /\ exc[p] = "TokenExpired" => late
                   /\ late => /\ pc[p] \in {"delete", "exit", "done"}
                              /\ exc[p] \in {"none", "TokenExpired", "StoreFault"}
                              /\ pc[p] # "delete" => exc[p] # "none"
                              /\ Done(p) => Kind(p) \in {"TokenExpired", "StoreFault"}

\* One call tested its session at the last instant of the window and
\* succeeded; another tested it one second later and raised TokenExpired.
C11_Witness ==
    \E p, q \in Procs :
        /\ Done(p) /\ Tested(p) /\ Kind(p) = "ok"
        /\ \E s \in refresh_session[p] : checkedAt[p] = s.created_at + s.expires_in
        /\ Done(q) /\ Tested(q) /\ Kind(q) = "TokenExpired"
        /\ \E s \in refresh_session[q] : checkedAt[q] = s.created_at + s.expires_in + 1

\* C12: authenticate_user returns the user with the given email when the
\* password verifies against that user's stored hash; it raises
\* InvalidCredentials, the same error, when no user has the email and when
\* the password does not verify; and no step of it creates, changes or
\* deletes a session record, committed or pending.
C12_Authenticate ==
    /\ [](\A p \in Procs :
            Done(p) /\ op[p] = "authenticate" =>
                LET verified == verify_password(password[p], HashedPassword(arg[p]))
                    fault == Kind(p) = "StoreFault"
                IN /\ Kind(p) \in {"ok", "InvalidCredentials", "StoreFault"}
                   /\ Kind(p) = "ok" =>
                          /\ result[p].user = {arg[p]}
                          /\ arg[p] \in UserIds
                          /\ verified
                   /\ ~fault /\ arg[p] \in users /\ verified => Kind(p) = "ok"
                   /\ ~fault /\ arg[p] \notin UserIds => Kind(p) = "InvalidCredentials"
                   /\ ~fault /\ user[p] = {} => Kind(p) = "InvalidCredentials"
                   /\ ~fault /\ ~verified => Kind(p) = "InvalidCredentials"
                   /\ Kind(p) # "ok" => result[p] = [NoResult EXCEPT !.kind = Kind(p)]
                   /\ ~committed[p] /\ effect[p] = NoWrites /\ scopes[p] = 0)
    /\ [][\A p \in Procs :
            op'[p] = "authenticate" /\ pc'[p] # pc[p] =>
                /\ sessions' = sessions
                /\ pending' = pending]_vars

\* Two finished authenticate calls, one with an email no user has and one
\* with a user's email and a wrong password: both raised InvalidCredentials
\* with the same result, and a session is in the store.
C12_Witness ==
    \E p, q \in Procs :
        /\ Done(p) /\ op[p] = "authenticate" /\ arg[p] \notin UserIds
        /\ Done(q) /\ op[q] = "authenticate" /\ arg[q] \in users
        /\ ~verify_password(password[q], HashedPassword(arg[q]))
        /\ Kind(p) = "InvalidCredentials"
        /\ result[q] = result[p]
        /\ sessions # {}

\* C13: session records are immutable.  The store holds at most one session
\* per refresh token; across every step, a session that stays in the store
\* keeps its refresh_token, user_id, created_at and expires_in; a step
\* changes the store only by adding sessions under refresh tokens the store
\* did not hold and by removing sessions whole; and the writes a call has
\* pending are inserts of whole records and deletes by refresh token.
C13_SessionsImmutable ==
    /\ [](\A s, s2 \in sessions : s2.refresh_token = s.refresh_token => s2 = s)
    /\ [][/\ \A s \in sessions : \A s2 \in sessions' :
                s2.refresh_token = s.refresh_token => s2 = s
          /\ \A s2 \in sessions' \ sessions :
                /\ s2.created_at <= now /\ s2.expires_in = RefreshLifetime
                /\ \E p \in Procs : op[p] = "create" /\ s2 \in pending[p].ins
          /\ \A p \in Procs :
                /\ pending'[p].ins \ pending[p].ins \subseteq
                      {[refresh_token |-> refresh_token[p], user_id |-> arg[p],
                        created_at |-> now, expires_in |-> RefreshLifetime]}
                /\ pending'[p].del \ pending[p].del \subseteq {arg[p]}]_vars

\* The session the store began with is still there as it was created, after
\* a refresh of it succeeded at a later clock reading and a create_token
\* added another session.
C13_Witness ==
    \E p, q \in Procs :
        /\ Done(p) /\ op[p] = "refresh" /\ Kind(p) = "ok" /\ result[p].at > 0
        /\ Done(q) /\ op[q] = "create" /\ Kind(q) = "ok"
        /\ \E s \in sessions :
              /\ s.refresh_token = arg[p]
              /\ s.created_at = 0 /\ s.expires_in = RefreshLifetime
              /\ s \in snap[p]
        /\ Cardinality(sessions) = 2

\* The signature of the token is the service's signature of its payload.
Signed(tok) == tok.signature = [key |-> JWT_PRIVATE_KEY, over |-> tok.payload]

\* C15: whether decoding an access token succeeds depends only on the token
\* and the clock: a token with the service's signature decodes successfully
\* at every clock reading before its exp and fails as expired at every
\* reading after it, a token without the signature fails, and this is so
\* whatever the session store holds and whichever logouts have returned; so
\* an access token returned by create_token or refresh still decodes after
\* the logout of its refresh token, until its exp.
C15_DecodeIgnoresLogout ==
    \A d \in decoded :
        /\ Signed(d.token) /\ d.at < d.token.payload.exp => d.outcome = "ok"
        /\ Signed(d.token) /\ d.at > d.token.payload.exp
               => d.outcome = "ExpiredSignatureError"
        /\ ~Signed(d.token) => d.outcome = "InvalidSignatureError"
        /\ d.outcome = "ok" => Signed(d.token) /\ d.at <= d.token.payload.exp

\* An access token returned by create_token was decoded successfully after
\* the logout of the refresh token it was returned with had returned.
C15_Witness ==
    \E d \in decoded : \E p \in Procs : \E x \in result[p].token :
        /\ op[p] = "create" /\ Done(p)
        /\ x.access_token = d.token
        /\ x.refresh_token \in d.loggedOut
        /\ d.outcome = "ok"

\* The refresh found a session, found it within its window, and its lookup
\* of the owning user returned nothing.
UserMissing(p) ==
    /\ Done(p) /\ op[p] = "refresh" /\ Kind(p) # "StoreFault"
    /\ refresh_session[p] # {}
    /\ \A s \in refresh_session[p] : ~SessionExpired(s, checkedAt[p])
    /\ user[p] = {}

\* C16: a refresh on an existing, unexpired session whose owning user no
\* longer exists fails with InvalidToken, returns no token pair, commits
\* nothing and leaves the session in the store; and the lookup comes back
\* empty only for a user that does not exist.
C16_MissingUser ==
    \A p \in Procs :
        UserMissing(p) =>
            /\ Kind(p) = "InvalidToken"
            /\ result[p].token = {}
            /\ ~committed[p] /\ effect[p] = NoWrites
            /\ refresh_session[p] \subseteq sessions
            /\ \A s \in refresh_session[p] : s.user_id \notin users

C16_Witness ==
    \E p \in Procs :
        /\ UserMissing(p)
        /\ SessionGet(arg[p]) # {}
        /\ \A s \in SessionGet(arg[p]) : ~SessionExpired(s, now)

\* C17 (as claimed): a token returned by encode carries sub = subject,
\* iat = now, and exp = now + ttl for every ttl the caller gave, zero and
\* negative included; exp = now + 5 minutes only when no ttl was given.
C17_ExpIsNowPlusTtl ==
    \A e \in encoded :
        /\ e.token.payload.sub = e.subject
        /\ e.token.payload.iat = e.at
        /\ \A d \in e.expires : e.token.payload.exp = e.at + d
        /\ e.expires = {} => e.token.payload.exp = e.at + AccessLifetime

FoundExpired(p) ==
    /\ op[p] = "refresh" /\ Tested(p)
    /\ \A s \in refresh_session[p] : SessionExpired(s, checkedAt[p])

\* C19: in refresh the expiry test comes before the user lookup.  A refresh
\* that finds its session expired never looks the owning user up; it issues
\* the delete of the session and raises TokenExpired, never InvalidToken,
\* and this whether or not the owning user exists.
C19_ExpiryBeforeUser ==
    \A p \in Procs :
        FoundExpired(p) =>
            /\ user[p] = {}
            /\ pc[p] \in {"delete", "exit", "done"}
            /\ exc[p] # "InvalidToken"
            /\ exc[p] = "TokenExpired" /\ pc[p] = "exit" => arg[p] \in pending[p].del
            /\ Done(p) /\ Kind(p) # "StoreFault" => Kind(p) = "TokenExpired"

\* A refresh raised TokenExpired for an expired session whose owning user
\* was already gone when the session was looked up.
C19_Witness ==
    \E p \in Procs :
        /\ FoundExpired(p) /\ Done(p) /\ Kind(p) = "TokenExpired"
        /\ \A s \in refresh_session[p] : s.user_id \notin usersAt[p]

\* The call is a create_token that has drawn its refresh token.
Drew(p) == op[p] = "create" /\ pc[p] # "idle"

\* C20 (as claimed): the generator call of create_token, made with no
\* argument, draws 48 random bytes.
C20_Draws48 ==
    \A p \in Procs : Drew(p) => drawn[p] = 48

\* C20 (amended): the generator call of create_token, made with no
\* argument, draws 64 random bytes, the default of the generator's length
\* parameter; calls of the other flows draw none.
C20_Draws64 ==
    \A p \in Procs :
        /\ Drew(p) => drawn[p] = 64
        /\ ~Drew(p) => drawn[p] = 0

\* A create_token call has returned its pair, with the refresh token drawn
\* from 64 bytes stored in the session.
C20_Witness ==
    \E p \in Procs :
        /\ Drew(p) /\ Done(p) /\ Kind(p) = "ok"
        /\ drawn[p] = 64
        /\ SessionGet(refresh_token[p]) # {}
====
